---------------------------- MODULE Spec2Model ----------------------------
(***************************************************************************)
(* Bordeaux bike-share pipeline: the continuous runner (src/extract.py)    *)
(* and the on-demand dashboard (src/app.py) working on one SQLite file.    *)
(*                                                                         *)
(* The runner is a process with a position (pc): its ingestion cycle and   *)
(* its analysis advance one library call at a time, so that storage        *)
(* faults, the keyboard interrupt and the dashboard's operations can fall  *)
(* between any two of them.  Each dashboard operation is one handler and   *)
(* is one action; the point at which it fails is an input of the action.   *)
(***************************************************************************)
EXTENDS Integers, Sequences, FiniteSets

\* ------------------------------------------------------------------ bounds
\* Largest number of stations in one API response.
MaxStations == 2
\* Capacity of the table: a response with stations is offered to a cycle
\* only while its rows still fit.
MaxRows == 2
\* Wall-clock readings datetime.now() can give: 1..MaxTime.
MaxTime == 2
\* Largest number of stations in a table the ranking is computed on.
MaxRankStations == 11

\* --------------------------------------------------------------- constants
\* None / SQL NULL: what station.get(key) gives for an absent key.
NULL == -1
\* LIMIT of SQL_RANKING_QUERY.
RankingLimit == 10

\* ------------------------------------------------------------------- state
VARIABLES
    rows,             \* station_status: the committed rows, in rowid order
    tableExists,      \* whether station_status exists in the file
    pc,               \* runner: position in the __main__ loop of extract.py
    stations_data,    \* runner: the stations of the response being loaded
    current_time_str, \* runner: the timestamp of the cycle
    conn,             \* runner: "None", "open" or "closed"
    pending,          \* runner: rows inserted by the open transaction
    cycle,            \* runner: what run_ingestion_cycle() just printed and returned
    analysis,         \* runner: what analyze_and_rank_stations() just fetched and printed
    app,              \* dashboard: the last operation and what it returned
    display_cache,    \* dashboard: st.cache_data of get_station_data_for_display
    ranking_cache     \* dashboard: st.cache_data of get_ranking_analysis

vars == <<rows, tableExists, pc, stations_data, current_time_str, conn,
          pending, cycle, analysis, app, display_cache, ranking_cache>>

\* What the dashboard's actions leave alone, and the runner's.
runnerVars == <<pc, stations_data, current_time_str, conn, pending, cycle,
                analysis>>
appVars == <<app, display_cache, ranking_cache>>

Times == 1..MaxTime

\* ------------------------------------------------------------ API response
\* What the API reports for station i at wall-clock reading t.
Readings ==
    << [free_bikes |-> 5,    empty_slots |-> 5],
       [free_bikes |-> 7,    empty_slots |-> 3],
       [free_bikes |-> 0,    empty_slots |-> 0],
       [free_bikes |-> NULL, empty_slots |-> 2] >>

Reading(i, t) == Readings[((i + t - 2) % Len(Readings)) + 1]

Station(i, t) ==
    [is_dict |-> TRUE, id |-> i, name |-> i,
     free_bikes |-> Reading(i, t).free_bikes,
     empty_slots |-> Reading(i, t).empty_slots,
     latitude |-> i, longitude |-> i]

\* A stations list of k stations.
Stations(k, t) == [i \in 1..k |-> Station(i, t)]

\* An element of the stations list that is not a JSON object.
NotADict ==
    [is_dict |-> FALSE, id |-> NULL, name |-> NULL, free_bikes |-> NULL,
     empty_slots |-> NULL, latitude |-> NULL, longitude |-> NULL]

\* A station object without the 'id' and 'name' keys: station.get gives None.
Unnamed(t) == [Station(1, t) EXCEPT !.id = NULL, !.name = NULL]

\* The stations lists a response can carry at wall-clock reading t.
Batches(t) == {Stations(k, t) : k \in 1..MaxStations} \cup {<<NotADict>>}


\* ----------------------------------------------------------------- storage
\* Transformation T: the row built from one station of the response.
RowOf(station, t) ==
    [snapshot_time |-> t,
     station_id |-> station.id,
     name |-> station.name,
     num_bikes_available |-> station.free_bikes,
     num_docks_available |-> station.empty_slots,
     latitude |-> station.latitude,
     longitude |-> station.longitude]

rows_to_insert(stations, t) == [i \in 1..Len(stations) |-> RowOf(stations[i], t)]

\* station.get(...) raises AttributeError on an element that is no dict.
AllDicts(stations) == \A i \in 1..Len(stations) : stations[i].is_dict

\* An INSERT on a connection in autocommit mode (isolation_level=None):
\* the row is a table row at once.
SQL_INSERT_autocommit(txn, row) ==
    [committed |-> Append(txn.committed, row), pending |-> txn.pending]

\* One INSERT of executemany: the row joins the connection's open
\* transaction (sqlite3 begins one implicitly before the first INSERT).
\* txn is [committed, pending].
SQL_INSERT(txn, row) ==
    [committed |-> txn.committed, pending |-> Append(txn.pending, row)]

RECURSIVE Contains(_, _)
Contains(table, row) ==
    table # <<>> /\ (Head(table) = row \/ Contains(Tail(table), row))

\* A commit onto a table that refuses a second row for a station and
\* snapshot_time (a unique key with INSERT OR IGNORE).
Commit_dedup(txn) ==
    [committed |-> txn.committed
                   \o SelectSeq(txn.pending,
                                LAMBDA r : ~Contains(txn.committed, r)),
     pending |-> <<>>]

\* conn.commit(): the rows of the transaction become table rows.
Commit(txn) ==
    [committed |-> txn.committed \o txn.pending, pending |-> <<>>]

\* A close() that commits the open transaction instead of dropping it.
Rollback_commits(txn) ==
    [committed |-> txn.committed \o txn.pending, pending |-> <<>>]

\* conn.rollback(), and conn.close() with a transaction still open: the
\* rows of the transaction are dropped.
Rollback(txn) == [committed |-> txn.committed, pending |-> <<>>]

\* SELECT MAX(snapshot_time) FROM station_status; NULL on no row.
MaxSnapshotTime(table) ==
    IF table = <<>> THEN NULL
    ELSE CHOOSE t \in {table[i].snapshot_time : i \in 1..Len(table)} :
             \A i \in 1..Len(table) : table[i].snapshot_time <= t

\* datetime.now().isoformat(): the timestamps compare as the clock readings
\* do.  A reading is later than every timestamp taken so far or, the wall
\* clock having been set back meanwhile (the end of daylight saving time, a
\* clock correction), it is one of those or earlier.
LatestStamp ==
    LET m == MaxSnapshotTime(rows)
    IN  IF current_time_str > m THEN current_time_str ELSE m

Now == {t \in Times : t <= LatestStamp + 1}

\* ------------------------------------------ runner: run_ingestion_cycle()
\* cycle is what the call just left printed and returned, where it left
\* the code (at) and with how many rows in its transaction (inserted); the
\* loop drops the value as soon as it goes on.
NoCycle == [msg |-> "none", ret |-> "none", at |-> "none", inserted |-> 0]

NoAnalysis == [msg |-> "none", results |-> <<>>, printed |-> <<>>]

LoadPcs == {"connect", "create", "insert", "commit"}

\* Rows of the runner's batch that are not in the table yet.
InFlight == IF pc \in LoadPcs THEN Len(stations_data) ELSE 0

Room(k) == Len(rows) + InFlight + k <= MaxRows

\* run_ingestion_cycle() whose handlers print and raise again: the error
\* reaches __main__, which catches KeyboardInterrupt only, and ends the script.
EndCycle_reraise(msg) ==
    /\ cycle' = [msg |-> msg, ret |-> "None", at |-> pc,
                 inserted |-> Len(pending)]
    /\ stations_data' = <<>>
    /\ current_time_str' = 0
    /\ pc' = IF msg \in {"loaded", "no_data"} THEN "analyze" ELSE "stopped"

\* A loop that analyses after a successful cycle only: a failed cycle goes
\* straight to the sleep.
EndCycle_skip_analysis(msg) ==
    /\ cycle' = [msg |-> msg, ret |-> "None", at |-> pc,
                 inserted |-> Len(pending)]
    /\ stations_data' = <<>>
    /\ current_time_str' = 0
    /\ pc' = IF msg \in {"loaded", "no_data"} THEN "analyze" ELSE "sleep"

\* run_ingestion_cycle() has returned; the loop goes on to the analysis.
EndCycle(msg) ==
    /\ cycle' = [msg |-> msg, ret |-> "None", at |-> pc,
                 inserted |-> Len(pending)]
    /\ stations_data' = <<>>
    /\ current_time_str' = 0
    /\ pc' = "analyze"

\* while True: the cycle's start is printed and run_ingestion_cycle() called.
LoopStart ==
    /\ pc = "loop"
    /\ pc' = "fetch"
    /\ UNCHANGED <<rows, tableExists, stations_data, current_time_str, conn,
                   pending, cycle, analysis, appVars>>

\* requests.get raises (timeout, DNS, refused), raise_for_status raises on a
\* 4xx/5xx status, or response.json() cannot decode the body: all are
\* RequestException, printed by the first handler.
FetchNetworkFailure ==
    /\ pc = "fetch"
    /\ \E kind \in {"transport", "status", "undecodable"} :
           EndCycle("api_error")
    /\ UNCHANGED <<rows, tableExists, conn, pending, analysis, appVars>>

\* The body is {"network": null}: data.get('network', {}) is None and
\* .get on it raises AttributeError, printed by the second handler.
FetchUnexpected ==
    /\ pc = "fetch"
    /\ EndCycle("unexpected")
    /\ UNCHANGED <<rows, tableExists, conn, pending, analysis, appVars>>

\* The body has no 'network' key, no 'stations' key or an empty list:
\* stations_data is [] and load_data_to_sqlite returns at once.
FetchEmpty ==
    /\ pc = "fetch"
    /\ \E shape \in {"no_network", "no_stations", "empty_list"} :
           EndCycle("no_data")
    /\ UNCHANGED <<rows, tableExists, conn, pending, analysis, appVars>>

\* The body carries stations: the batch is stamped and load_data_to_sqlite
\* is entered.
FetchStations ==
    /\ pc = "fetch"
    /\ \E t \in Now :
         \E batch \in Batches(t) \cup {<<Unnamed(t)>>} :
           /\ Room(Len(batch))
           /\ stations_data' = batch
           /\ current_time_str' = t
    /\ conn' = "None"
    /\ pc' = "connect"
    /\ UNCHANGED <<rows, tableExists, pending, cycle, analysis,
                   appVars>>

\* conn = sqlite3.connect(DB_NAME)
Connect ==
    /\ pc = "connect"
    /\ conn' = "open"
    /\ pc' = "create"
    /\ UNCHANGED <<rows, tableExists, stations_data, current_time_str,
                   pending, cycle, analysis, appVars>>

\* cursor.execute(SQL_CREATE_TABLE), then the rows are built.  A station
\* that is no dict raises AttributeError: finally closes the connection and
\* run_ingestion_cycle's second handler prints it.
SQL_CREATE_TABLE ==
    /\ pc = "create"
    /\ tableExists' = TRUE
    /\ IF AllDicts(stations_data)
       THEN /\ pc' = "insert"
            /\ UNCHANGED <<conn, stations_data, current_time_str, cycle>>
       ELSE /\ conn' = "closed"
            /\ EndCycle("unexpected")
    /\ UNCHANGED <<rows, pending, analysis, appVars>>

\* cursor.executemany(SQL_INSERT, rows_to_insert), one row at a time.
ExecuteMany ==
    /\ pc = "insert"
    /\ Len(pending) < Len(stations_data)
    /\ LET all == rows_to_insert(stations_data, current_time_str)
           txn == SQL_INSERT([committed |-> rows, pending |-> pending],
                             all[Len(pending) + 1])
       IN  /\ pending' = txn.pending
           /\ rows' = txn.committed
           /\ pc' = IF Len(txn.pending) = Len(all) THEN "commit" ELSE "insert"
    /\ UNCHANGED <<tableExists, stations_data, current_time_str, conn,
                   cycle, analysis, appVars>>

\* conn.commit(), the success message, and finally: conn.close().
ConnCommit ==
    /\ pc = "commit"
    /\ LET txn == Commit([committed |-> rows, pending |-> pending])
       IN  /\ rows' = txn.committed
           /\ pending' = txn.pending
    /\ conn' = "closed"
    /\ EndCycle("loaded")
    /\ UNCHANGED <<tableExists, analysis, appVars>>

\* A handler that rolls back and returns with no finally clause: the
\* connection stays open.
StorageFault_no_finally ==
    /\ pc \in LoadPcs
    /\ LET txn == Rollback([committed |-> rows, pending |-> pending])
       IN  /\ rows' = txn.committed
           /\ pending' = txn.pending
    /\ conn' = conn
    /\ EndCycle("sqlite_error")
    /\ UNCHANGED <<tableExists, analysis, appVars>>

\* sqlite3.Error at connect, CREATE TABLE, an INSERT or the commit: the
\* handler prints it, rolls back when there is a connection, and finally
\* closes it.
StorageFault ==
    /\ pc \in LoadPcs
    /\ LET txn == Rollback([committed |-> rows, pending |-> pending])
       IN  /\ rows' = txn.committed
           /\ pending' = txn.pending
    /\ conn' = IF conn = "open" THEN "closed" ELSE conn
    /\ EndCycle("sqlite_error")
    /\ UNCHANGED <<tableExists, analysis, appVars>>


\* ------------------------------------------------------- SQL_RANKING_QUERY
\* Fractions are kept exact as [num, den]; den = 0 stands for SQL NULL (an
\* aggregate over no value).
RECURSIVE SumBikes(_)
\* SUM(num_bikes_available) over the non-NULL values of a group.
SumBikes(group) ==
    IF group = <<>> THEN 0
    ELSE (IF Head(group).num_bikes_available = NULL THEN 0
          ELSE Head(group).num_bikes_available) + SumBikes(Tail(group))

RECURSIVE CountBikes(_)
\* The number of non-NULL num_bikes_available of a group.
CountBikes(group) ==
    IF group = <<>> THEN 0
    ELSE (IF Head(group).num_bikes_available = NULL THEN 0 ELSE 1)
         + CountBikes(Tail(group))

\* CAST(bikes AS REAL) / (bikes + docks) is NULL when an operand is NULL or
\* the divisor is 0: SQLite's division by zero gives NULL, not an error.
HasRatio(row) ==
    /\ row.num_bikes_available # NULL
    /\ row.num_docks_available # NULL
    /\ row.num_bikes_available + row.num_docks_available # 0

RECURSIVE DenRatios(_)
\* The sum of the non-NULL ratios of a group, as the fraction
\* NumRatios / DenRatios: the denominator is the product of the divisors.
DenRatios(group) ==
    IF group = <<>> THEN 1
    ELSE (IF HasRatio(Head(group))
          THEN Head(group).num_bikes_available
               + Head(group).num_docks_available
          ELSE 1) * DenRatios(Tail(group))

RECURSIVE NumRatios(_)
NumRatios(group) ==
    IF group = <<>> THEN 0
    ELSE IF HasRatio(Head(group))
         THEN NumRatios(Tail(group))
                * (Head(group).num_bikes_available
                   + Head(group).num_docks_available)
              + Head(group).num_bikes_available * DenRatios(Tail(group))
         ELSE NumRatios(Tail(group))

RECURSIVE CountRatios_zero_percent(_)
\* A policy that takes the ratio of a row with bikes + docks = 0 for 0%:
\* the row counts in the average.
CountRatios_zero_percent(group) ==
    IF group = <<>> THEN 0
    ELSE (IF /\ Head(group).num_bikes_available # NULL
             /\ Head(group).num_docks_available # NULL
          THEN 1 ELSE 0) + CountRatios_zero_percent(Tail(group))

RECURSIVE CountRatios(_)
\* The number of non-NULL ratios of a group.
CountRatios(group) ==
    IF group = <<>> THEN 0
    ELSE (IF HasRatio(Head(group)) THEN 1 ELSE 0) + CountRatios(Tail(group))

\* ROUND(x * 100, 2) of the fraction p / q >= 0, in hundredths of a percent
\* (6000 is 60.00): half rounds away from zero.
RoundPercent(p, q) == (2 * 10000 * p + q) \div (2 * q)

\* The aggregates of one GROUP BY station_id, name group.
Aggregate(key, table) ==
    LET group == SelectSeq(table, LAMBDA r :
                     r.station_id = key[1] /\ r.name = key[2])
        nb == CountBikes(group)
        nr == CountRatios(group)
    IN  [station_id |-> key[1],
         name |-> key[2],
         snapshots_count |-> Len(group),
         total_bikes |-> IF nb = 0 THEN NULL ELSE SumBikes(group),
         avg_bikes |-> [num |-> SumBikes(group), den |-> nb],
         avg_utilization_percent |->
             IF nr = 0 THEN NULL
             ELSE RoundPercent(NumRatios(group), DenRatios(group) * nr)]

GroupKeys(table) ==
    {<<table[i].station_id, table[i].name>> : i \in 1..Len(table)}

KeyLess(a, b) == a[1] < b[1] \/ (a[1] = b[1] /\ a[2] < b[2])

\* GROUP BY walks the groups in key order: the key at place p has p - 1
\* keys before it.
SortedKeys(keys) ==
    [p \in 1..Cardinality(keys) |->
        CHOOSE k \in keys :
            Cardinality({o \in keys : KeyLess(o, k)}) = p - 1]

\* ORDER BY avg_bikes DESC: a sorts strictly before b.  NULL sorts last.
AvgBikesDesc(a, b) ==
    /\ a.avg_bikes.den # 0
    /\ \/ b.avg_bikes.den = 0
       \/ a.avg_bikes.num * b.avg_bikes.den > b.avg_bikes.num * a.avg_bikes.den

\* The place of entry i in the ordered sequence: behind the entries that
\* sort before it and the earlier ones that tie with it (ties keep the
\* order of the groups).
Place(entries, i) ==
    1 + Cardinality({j \in 1..Len(entries) :
                        \/ AvgBikesDesc(entries[j], entries[i])
                        \/ j < i /\ ~AvgBikesDesc(entries[i], entries[j])})

OrderBy(entries) ==
    [p \in 1..Len(entries) |->
        entries[CHOOSE i \in 1..Len(entries) : Place(entries, i) = p]]

\* The query without its LIMIT clause.
Limit_none(seq) == seq

\* LIMIT 10
Limit(seq) ==
    SubSeq(seq, 1, IF Len(seq) < RankingLimit THEN Len(seq) ELSE RankingLimit)

\* The query with WHERE snapshot_time = (SELECT MAX(snapshot_time) ...): a
\* ranking of the latest snapshot only.
SQL_RANKING_QUERY_latest(table) ==
    LET last == SelectSeq(table, LAMBDA r :
                    r.snapshot_time = MaxSnapshotTime(table))
        keys == SortedKeys(GroupKeys(last))
    IN  Limit(OrderBy([i \in 1..Len(keys) |-> Aggregate(keys[i], last)]))

\* The rows SQL_RANKING_QUERY returns on a table.
SQL_RANKING_QUERY(table) ==
    LET keys == SortedKeys(GroupKeys(table))
    IN  Limit(OrderBy([i \in 1..Len(keys) |-> Aggregate(keys[i], table)]))


\* -------------------------------------- runner: analyze_and_rank_stations()
\* The table lines printed before a station_id that is None stops the loop
\* (f"{station_id:<20}" raises TypeError on None).
RECURSIVE PrintedLines(_)
PrintedLines(results) ==
    IF results = <<>> \/ Head(results).station_id = NULL THEN <<>>
    ELSE LET r == Head(results)
         IN  <<[station_id |-> r.station_id,
                name |-> r.name,
                count |-> r.snapshots_count,
                \* util_str: "0.00%" for None and for 0.0
                util |-> IF r.avg_utilization_percent = NULL THEN 0
                         ELSE r.avg_utilization_percent]>>
             \o PrintedLines(Tail(results))

\* conn = sqlite3.connect(DB_NAME) and the header lines.
AnalyzeConnect ==
    /\ pc = "analyze"
    /\ conn' = "open"
    /\ cycle' = NoCycle
    /\ pc' = "rank"
    /\ UNCHANGED <<rows, tableExists, stations_data, current_time_str,
                   pending, analysis, appVars>>

\* cursor.execute(SQL_RANKING_QUERY), fetchall, the table, and finally:
\* conn.close().  Without the table the query raises sqlite3.Error.
AnalyzeQuery ==
    /\ pc = "rank"
    /\ IF ~tableExists
       THEN analysis' = [NoAnalysis EXCEPT !.msg = "sql_error"]
       ELSE \E results \in {SQL_RANKING_QUERY(rows)} :
              \E printed \in {PrintedLines(results)} :
                analysis' =
                  [msg |-> IF results = <<>> THEN "no_data"
                           ELSE IF Len(printed) < Len(results) THEN "unexpected"
                           ELSE "table",
                   results |-> results,
                   printed |-> printed]
    /\ conn' = "closed"
    /\ pc' = "sleep"
    /\ UNCHANGED <<rows, tableExists, stations_data, current_time_str,
                   pending, cycle, appVars>>

\* sqlite3.Error at connect or at the query: printed, and the connection
\* closed when there is one.
AnalyzeStorageFault ==
    /\ pc \in {"analyze", "rank"}
    /\ analysis' = [NoAnalysis EXCEPT !.msg = "sql_error"]
    /\ conn' = IF pc = "rank" THEN "closed" ELSE "None"
    /\ cycle' = NoCycle
    /\ pc' = "sleep"
    /\ UNCHANGED <<rows, tableExists, stations_data, current_time_str,
                   pending, appVars>>

\* ------------------------------------------------------ runner: __main__
\* time.sleep(POLL_INTERVAL_SECONDS) returns and the loop starts over.
Sleep ==
    /\ pc = "sleep"
    /\ analysis' = NoAnalysis
    /\ pc' = "loop"
    /\ UNCHANGED <<rows, tableExists, stations_data, current_time_str, conn,
                   pending, cycle, appVars>>

\* An interrupt that is held back until the cycle is over (a signal handler
\* that sets a flag the loop tests before it sleeps).
KeyboardInterrupt_deferred ==
    /\ pc \in {"loop", "sleep"}
    /\ UNCHANGED <<rows, pending, conn, stations_data, current_time_str>>
    /\ cycle' = [msg |-> "KeyboardInterrupt", ret |-> "none", at |-> pc,
                 inserted |-> 0]
    /\ analysis' = NoAnalysis
    /\ pc' = "stopped"
    /\ UNCHANGED <<tableExists, appVars>>

\* KeyboardInterrupt, wherever the runner is: no handler below __main__
\* catches it (except Exception does not), each finally on the way closes
\* its connection, which drops an open transaction, and __main__ prints the
\* farewell and ends.
KeyboardInterrupt ==
    /\ pc # "stopped"
    /\ LET txn == Rollback([committed |-> rows, pending |-> pending])
       IN  /\ rows' = txn.committed
           /\ pending' = txn.pending
    /\ conn' = IF conn = "open" THEN "closed" ELSE conn
    /\ stations_data' = <<>>
    /\ current_time_str' = 0
    /\ cycle' = [msg |-> "KeyboardInterrupt", ret |-> "none", at |-> pc,
                 inserted |-> Len(pending)]
    /\ analysis' = NoAnalysis
    /\ pc' = "stopped"
    /\ UNCHANGED <<tableExists, appVars>>


\* ------------------------------------------- dashboard: the ingestion cycle
\* The point of load_data_to_sqlite at which sqlite3 raises: at is "none",
\* "connect", "create", "insert" (after n rows went in) or "commit".
NoFault == [at |-> "none", n |-> 0]

Faults(stations) ==
    {[at |-> a, n |-> 0] : a \in {"none", "connect", "create", "commit"}}
    \cup {[at |-> "insert", n |-> i] : i \in 0..(Len(stations) - 1)}

RECURSIVE ExecuteManyRows(_, _, _)
\* executemany over the first n rows.
ExecuteManyRows(txn, all, n) ==
    IF n = 0 THEN txn
    ELSE SQL_INSERT(ExecuteManyRows(txn, all, n - 1), all[n])

\* A load whose handler commits what went in before the INSERT that
\* failed, where the code rolls back.
load_data_to_sqlite_commit_on_error(table, exists, stations, t, fault) ==
    LET same == [rows |-> table, exists |-> exists, ret |-> "False",
                 raised |-> FALSE]
        all == rows_to_insert(stations, t)
        txn == [committed |-> table, pending |-> <<>>]
    IN  IF stations = <<>> THEN [same EXCEPT !.ret = "None"]
        ELSE IF fault.at \in {"connect", "create"} THEN same
        ELSE IF ~AllDicts(stations)
             THEN [same EXCEPT !.exists = TRUE, !.ret = "none", !.raised = TRUE]
        ELSE IF fault.at = "insert"
             THEN [same EXCEPT !.exists = TRUE,
                     !.rows = Commit(ExecuteManyRows(txn, all, fault.n)).committed]
        ELSE IF fault.at = "commit"
             THEN [same EXCEPT !.exists = TRUE,
                     !.rows = Rollback(ExecuteManyRows(txn, all, Len(all))).committed]
        ELSE [same EXCEPT !.exists = TRUE, !.ret = "True",
                !.rows = Commit(ExecuteManyRows(txn, all, Len(all))).committed]

\* load_data_to_sqlite of app.py on a table, with the fault it meets:
\* the table afterwards, the value returned, and whether an exception that
\* is no sqlite3.Error left the function.
load_data_to_sqlite(table, exists, stations, t, fault) ==
    LET same == [rows |-> table, exists |-> exists, ret |-> "False",
                 raised |-> FALSE]
        all == rows_to_insert(stations, t)
        txn == [committed |-> table, pending |-> <<>>]
    IN  IF stations = <<>> THEN [same EXCEPT !.ret = "None"]
        ELSE IF fault.at \in {"connect", "create"} THEN same
        ELSE IF ~AllDicts(stations)
             THEN [same EXCEPT !.exists = TRUE, !.ret = "none", !.raised = TRUE]
        ELSE IF fault.at = "insert"
             THEN [same EXCEPT !.exists = TRUE,
                     !.rows = Rollback(ExecuteManyRows(txn, all, fault.n)).committed]
        ELSE IF fault.at = "commit"
             THEN [same EXCEPT !.exists = TRUE,
                     !.rows = Rollback(ExecuteManyRows(txn, all, Len(all))).committed]
        ELSE [same EXCEPT !.exists = TRUE, !.ret = "True",
                !.rows = Commit(ExecuteManyRows(txn, all, Len(all))).committed]

FetchFailures == {"transport", "status", "undecodable"}
EmptyBodies == {"no_network", "no_stations", "empty_list"}

\* The API responses a cycle can meet, each with the wall-clock reading the
\* cycle stamps it with (0: the cycle never uses a timestamp).
Responses ==
    {[kind |-> k, stations |-> <<>>, t |-> 0] :
        k \in FetchFailures \cup EmptyBodies \cup {"null_network"}}
    \cup UNION {{[kind |-> "stations", stations |-> b, t |-> t] :
                    b \in Batches(t)} : t \in Now}

\* run_ingestion_cycle of app.py: the table afterwards, the value returned
\* and the st.error shown.
run_ingestion_cycle(table, exists, response, fault) ==
    LET same == [rows |-> table, exists |-> exists, ret |-> "False",
                 msg |-> "api_error"]
    IN  IF response.kind \in FetchFailures THEN same
        ELSE IF response.kind = "null_network"
             THEN [same EXCEPT !.msg = "unexpected"]
        ELSE LET l == load_data_to_sqlite(table, exists, response.stations,
                                          response.t, fault)
             IN  [rows |-> l.rows,
                  exists |-> l.exists,
                  ret |-> IF l.raised THEN "False" ELSE l.ret,
                  msg |-> IF l.raised THEN "unexpected"
                          ELSE IF l.ret = "False" THEN "sqlite_error"
                          ELSE IF l.ret = "None" THEN "no_data"
                          ELSE "loaded"]

\* The button of main(): one run_ingestion_cycle().  While the runner's
\* transaction holds the write lock the first INSERT cannot succeed.
AppIngest ==
    /\ \E response \in Responses :
         \E fault \in (IF response.stations = <<>> THEN {NoFault}
                       ELSE Faults(response.stations)) :
           /\ response.kind = "stations" =>
                 /\ Room(Len(response.stations))
                 /\ pending # <<>> =>
                      \/ fault.at \in {"connect", "create"}
                      \/ fault = [at |-> "insert", n |-> 0]
           /\ LET out == run_ingestion_cycle(rows, tableExists, response, fault)
              IN  /\ rows' = out.rows
                  /\ tableExists' = out.exists
                  /\ app' = [op |-> "ingest",
                             status |-> out.ret,
                             msg |-> out.msg,
                             fault |-> fault,
                             data |-> IF AllDicts(response.stations)
                                      THEN rows_to_insert(response.stations,
                                                          response.t)
                                      ELSE <<>>]
    /\ UNCHANGED <<runnerVars, display_cache, ranking_cache>>

\* --------------------------------------------------- dashboard: the reads
\* st.cache_data: nothing cached, or the value a call returned.
NoCache == [valid |-> FALSE, value |-> <<>>]

Cached(value) == [valid |-> TRUE, value |-> value]

\* SELECT * FROM station_status WHERE snapshot_time = (SELECT MAX(...)).
SQL_LATEST_QUERY(table) ==
    LET latest == MaxSnapshotTime(table)
    IN  SelectSeq(table, LAMBDA r : latest # NULL /\ r.snapshot_time = latest)

\* get_station_data_for_display without its cache, with the fault it meets
\* ("none", "connect" or "query"): sqlite3.connect's error is caught and an
\* empty frame returned; a failing query (the table may not exist) leaves
\* pandas.read_sql_query as pandas' DatabaseError, which is no
\* sqlite3.Error and leaves the function.
get_station_data_for_display(table, exists, at) ==
    IF at = "connect" THEN [status |-> "error_df", data |-> <<>>]
    ELSE IF at = "query" \/ ~exists THEN [status |-> "raised", data |-> <<>>]
    ELSE [status |-> "ok", data |-> SQL_LATEST_QUERY(table)]

\* The renamed and reformatted frame get_ranking_analysis returns.
RECURSIVE FormatRanking(_)
FormatRanking(results) ==
    IF results = <<>> THEN <<>>
    ELSE LET r == Head(results)
         IN  <<[station_id |-> r.station_id,
                name |-> r.name,
                Snapshots |-> r.snapshots_count,
                total_bikes |-> r.total_bikes,
                Velos_Moy |-> r.avg_bikes,
                Utilisation |-> r.avg_utilization_percent]>>
             \o FormatRanking(Tail(results))

\* get_ranking_analysis without its cache: every error, pandas' included,
\* is caught and an empty frame returned.
get_ranking_analysis(table, exists, at) ==
    IF at \in {"connect", "query"} \/ ~exists
    THEN [status |-> "error_df", data |-> <<>>]
    ELSE [status |-> "ok", data |-> FormatRanking(SQL_RANKING_QUERY(table))]

ReadFaults == {"none", "connect", "query"}

\* A display that reads through the writer's transaction (a shared
\* connection, or PRAGMA read_uncommitted on a shared cache): the rows
\* inserted but not yet committed are in its table.
AppDisplay_read_uncommitted ==
    /\ IF display_cache.valid
       THEN /\ app' = [op |-> "display", status |-> "cached", msg |-> "none",
                       fault |-> NoFault, data |-> display_cache.value]
            /\ UNCHANGED display_cache
       ELSE \E at \in ReadFaults :
              LET out == get_station_data_for_display(rows \o pending,
                                                      tableExists, at)
              IN  /\ app' = [op |-> "display", status |-> out.status,
                             msg |-> IF out.status = "error_df"
                                     THEN "sqlite_error" ELSE "none",
                             fault |-> [at |-> at, n |-> 0],
                             data |-> out.data]
                  /\ display_cache' = IF out.status = "raised" THEN NoCache
                                      ELSE Cached(out.data)
    /\ UNCHANGED <<rows, tableExists, runnerVars, ranking_cache>>

\* A call of get_station_data_for_display(): the cached frame while the
\* cache holds one, else the function's result, cached when it returned.
AppDisplay ==
    /\ IF display_cache.valid
       THEN /\ app' = [op |-> "display", status |-> "cached", msg |-> "none",
                       fault |-> NoFault, data |-> display_cache.value]
            /\ UNCHANGED display_cache
       ELSE \E at \in ReadFaults :
              LET out == get_station_data_for_display(rows, tableExists, at)
              IN  /\ app' = [op |-> "display", status |-> out.status,
                             msg |-> IF out.status = "error_df"
                                     THEN "sqlite_error" ELSE "none",
                             fault |-> [at |-> at, n |-> 0],
                             data |-> out.data]
                  /\ display_cache' = IF out.status = "raised" THEN NoCache
                                      ELSE Cached(out.data)
    /\ UNCHANGED <<rows, tableExists, runnerVars, ranking_cache>>

\* A call of get_ranking_analysis().
AppRanking ==
    /\ IF ranking_cache.valid
       THEN /\ app' = [op |-> "ranking", status |-> "cached", msg |-> "none",
                       fault |-> NoFault, data |-> ranking_cache.value]
            /\ UNCHANGED ranking_cache
       ELSE \E at \in ReadFaults :
              LET out == get_ranking_analysis(rows, tableExists, at)
              IN  /\ app' = [op |-> "ranking", status |-> out.status,
                             msg |-> IF out.status = "error_df"
                                     THEN "sqlite_error" ELSE "none",
                             fault |-> [at |-> at, n |-> 0],
                             data |-> out.data]
                  /\ ranking_cache' = Cached(out.data)
    /\ UNCHANGED <<rows, tableExists, runnerVars, display_cache>>

\* The ttl of a cache entry (300 s for the display, 3600 s for the ranking)
\* runs out.
DisplayCacheExpires ==
    /\ display_cache.valid
    /\ display_cache' = NoCache
    /\ UNCHANGED <<rows, tableExists, runnerVars, app, ranking_cache>>

RankingCacheExpires ==
    /\ ranking_cache.valid
    /\ ranking_cache' = NoCache
    /\ UNCHANGED <<rows, tableExists, runnerVars, app, display_cache>>

\* ------------------------------------------------------------ specification
\* A fresh directory: no database file, the runner about to enter its loop,
\* the dashboard not yet used.
Init ==
    /\ rows = <<>>
    /\ tableExists = FALSE
    /\ pc = "loop"
    /\ stations_data = <<>>
    /\ current_time_str = 0
    /\ conn = "None"
    /\ pending = <<>>
    /\ cycle = NoCycle
    /\ analysis = NoAnalysis
    /\ app = [op |-> "none", status |-> "none", msg |-> "none",
              fault |-> NoFault, data |-> <<>>]
    /\ display_cache = NoCache
    /\ ranking_cache = NoCache

Runner ==
    \/ LoopStart
    \/ FetchNetworkFailure
    \/ FetchUnexpected
    \/ FetchEmpty
    \/ FetchStations
    \/ Connect
    \/ SQL_CREATE_TABLE
    \/ ExecuteMany
    \/ ConnCommit
    \/ StorageFault
    \/ AnalyzeConnect
    \/ AnalyzeQuery
    \/ AnalyzeStorageFault
    \/ Sleep

Dashboard ==
    \/ AppIngest
    \/ AppDisplay
    \/ AppRanking
    \/ DisplayCacheExpires
    \/ RankingCacheExpires

Next == Runner \/ KeyboardInterrupt \/ Dashboard

Spec == Init /\ [][Next]_vars

\* The runner alone.  It is one sequential process: a step that can be
\* taken is taken (every library call returns).
RunnerSpec ==
    Init /\ [][Runner \/ KeyboardInterrupt]_vars /\ WF_vars(Runner)

\* The runner and the dashboard's button on one database file.
IngestSpec == Init /\ [][Runner \/ KeyboardInterrupt \/ AppIngest]_vars

\* The dashboard alone.
AppSpec == Init /\ [][Dashboard]_vars

\* The ranking on a table two cycles have filled: k stations at reading 1,
\* then j at reading 2.  The runner has just committed the later batch and
\* goes on to its analysis; the dashboard is asked for its ranking.
RankStores ==
    {rows_to_insert(Stations(k, 1), 1) \o rows_to_insert(Stations(j, 2), 2) :
        k \in 1..MaxRankStations, j \in 0..MaxRankStations}

InitRank ==
    /\ rows \in RankStores
    /\ tableExists = TRUE
    /\ pc = "analyze"
    /\ stations_data = <<>>
    /\ current_time_str = 0
    /\ conn = "closed"
    /\ pending = <<>>
    /\ cycle = [msg |-> "loaded", ret |-> "None", at |-> "commit",
                inserted |-> Len(SQL_LATEST_QUERY(rows))]
    /\ analysis = NoAnalysis
    /\ app = [op |-> "none", status |-> "none", msg |-> "none",
              fault |-> NoFault, data |-> <<>>]
    /\ display_cache = NoCache
    /\ ranking_cache = NoCache

Ranking ==
    \/ AnalyzeConnect
    \/ AnalyzeQuery
    \/ AnalyzeStorageFault
    \/ AppRanking
    \/ RankingCacheExpires

SpecRank == InitRank /\ [][Ranking]_vars

\* The runner at work while the dashboard reads the same database file.
Concurrent ==
    \/ Runner
    \/ AppDisplay
    \/ AppRanking
    \/ DisplayCacheExpires
    \/ RankingCacheExpires

ConcurrentSpec == Init /\ [][Concurrent]_vars


\* ================================================================== claims
\* A step of the runner, and a step of the dashboard.
RunnerStep == runnerVars' # runnerVars

DashboardStep ==
    /\ runnerVars' = runnerVars
    /\ <<rows, tableExists, appVars>>' # <<rows, tableExists, appVars>>

\* A click on the ingestion button, and how its load ended.
IngestStep == DashboardStep /\ app'.op = "ingest"

AppLoadFaulted == IngestStep /\ app'.msg = "sqlite_error"

AppLoadCommitted == IngestStep /\ app'.msg = "loaded"

\* The runner's load ends on a storage fault, and on its commit.
RunnerLoadFaulted == RunnerStep /\ pc \in LoadPcs /\ cycle'.msg = "sqlite_error"

RunnerLoadCommitted == RunnerStep /\ pc = "commit" /\ cycle'.msg = "loaded"

\* C1: append is all-or-nothing.  In the dashboard, a load that meets a
\* storage fault (at connect, CREATE TABLE, any INSERT or the commit) leaves
\* the table with exactly the rows it had, so the latest snapshot read back
\* is the one from before, and a load of a batch of stations that meets no
\* fault stores every row of the batch.  In the runner, a step changes the
\* table only by committing, a storage fault leaves the table as it was
\* with nothing left in the transaction, and the commit stores every row of
\* the batch.
C1_AllOrNothing ==
    [][ /\ AppLoadFaulted =>
              /\ app'.fault # NoFault
              /\ rows' = rows
              /\ SQL_LATEST_QUERY(rows') = SQL_LATEST_QUERY(rows)
        /\ AppLoadCommitted =>
              /\ app'.data # <<>>
              /\ rows' = rows \o app'.data
        /\ IngestStep /\ app'.data # <<>> /\ app'.fault = NoFault =>
              AppLoadCommitted
        /\ RunnerStep /\ rows' # rows => RunnerLoadCommitted
        /\ RunnerLoadFaulted => rows' = rows /\ pending' = <<>>
        /\ RunnerLoadCommitted =>
              /\ stations_data # <<>>
              /\ rows' = rows \o rows_to_insert(stations_data, current_time_str)
              /\ pending' = <<>>
      ]_vars

\* C1 witness: the dashboard's load failed after a first INSERT of a larger
\* batch, and the runner's load failed with a row in its transaction.
C1_Witness ==
    /\ app.op = "ingest"
    /\ app.fault.at = "insert"
    /\ app.fault.n >= 1
    /\ app.status = "False"
    /\ pc = "analyze"
    /\ cycle.msg = "sqlite_error"
    /\ cycle.at = "insert"
    /\ cycle.inserted >= 1


\* The runner's fetch fails, and the dashboard's.
RunnerFetchFailed == RunnerStep /\ pc = "fetch" /\ cycle'.msg = "api_error"

AppFetchFailed == IngestStep /\ app'.msg = "api_error"

\* C2: a failed network fetch (transport error, non-2xx status, undecodable
\* body) leaves the table unchanged and the cycle returns a failure result
\* (False) to its caller, in the dashboard and in the runner.
C2_FetchFailureReported ==
    [][ /\ AppFetchFailed => rows' = rows /\ app'.status = "False"
        /\ RunnerFetchFailed => rows' = rows /\ cycle'.ret = "False"
      ]_vars

\* The batch the dashboard has just committed carries the latest timestamp
\* of the table (every row from before is older), and no read has failed:
\* a frame the cache holds was read from the table.
AppLoadedLatest ==
    /\ app.op = "ingest"
    /\ app.msg = "loaded"
    /\ \A i \in 1..(Len(rows) - Len(app.data)) :
          rows[i].snapshot_time < app.data[1].snapshot_time
    /\ display_cache.valid => display_cache.value # <<>>

\* C3: a successful append of a batch of stations followed at once by
\* read_latest, which returns normally: the frame holds exactly the rows of
\* that batch, all with one snapshot_time, the largest in the table.  Stated
\* for the case most favourable to it: the clock has given the batch a
\* timestamp later than every one stored, and no earlier read has failed.
C3_AppendThenReadLatest ==
    [][ ( /\ AppLoadedLatest
          /\ DashboardStep
          /\ app'.op = "display"
          /\ app'.status \in {"ok", "cached"} )
        => /\ app'.data = app.data
           /\ \A i \in 1..Len(app'.data) :
                 app'.data[i].snapshot_time = MaxSnapshotTime(rows)
      ]_vars

\* C4: after a successful fetch the cycle returns what the append came to:
\* success (True) when the batch was committed, failure (False) when the
\* write failed, in the dashboard and in the runner.
C4_CycleResultIsAppendResult ==
    [][ /\ AppLoadCommitted => app'.status = "True"
        /\ AppLoadFaulted => app'.status = "False"
        /\ RunnerLoadCommitted => cycle'.ret = "True"
        /\ RunnerLoadFaulted => cycle'.ret = "False"
      ]_vars

\* The cycle met a body without stations (no network key, no stations key,
\* an empty list).
AppNoData == IngestStep /\ app'.msg = "no_data"

RunnerNoData == RunnerStep /\ pc = "fetch" /\ cycle'.msg = "no_data"

\* C5: append of an empty record sequence writes no row and reports success
\* (True; not a failure, not an absent result), so a cycle whose body has
\* no stations leaves the table unchanged and returns success.
C5_EmptyReportsSuccess ==
    [][ /\ AppNoData => rows' = rows /\ app'.status = "True"
        /\ RunnerNoData => rows' = rows /\ cycle'.ret = "True"
      ]_vars

\* Whether seq a is the beginning of seq b.
IsPrefix(a, b) == Len(a) <= Len(b) /\ SubSeq(b, 1, Len(a)) = a

\* C6: the table is append-only and never deduplicated.  Every step keeps
\* the rows there are, in place and unchanged; rows are added only by a
\* cycle that commits, the runner's or the dashboard's; and a cycle that
\* commits n station records adds exactly n rows, whatever rows are there.
C6_AppendOnly ==
    [][ /\ IsPrefix(rows, rows')
        /\ rows' # rows => RunnerLoadCommitted \/ AppLoadCommitted
        /\ RunnerLoadCommitted =>
              Len(rows') = Len(rows) + Len(stations_data)
        /\ AppLoadCommitted =>
              Len(rows') = Len(rows) + Len(app'.data)
      ]_vars

\* C6 witness: a cycle has committed a row that the table already held
\* (same station, same snapshot_time, same values), and both are there.
C6_Witness ==
    \E i, j \in 1..Len(rows) : i < j /\ rows[i] = rows[j]


\* What a failed ingestion prints, and a failed analysis.
CycleFailures == {"api_error", "sqlite_error", "unexpected"}

AnalysisFailures == {"sql_error", "unexpected"}

\* C7: in the continuous loop no failure of a cycle is fatal.  A step on
\* which the ingestion fails (network, storage, unexpected error) takes the
\* loop to the analysis, a step on which the analysis fails takes it to the
\* sleep; a failed ingestion is followed by the sleep and the sleep by the
\* start of the next cycle unless the interrupt stops the runner; and
\* without an interrupt cycles are started again and again.  Every library
\* call is taken to return.
C7_FailuresNeverFatal ==
    /\ [][ /\ RunnerStep /\ cycle'.msg \in CycleFailures => pc' = "analyze"
           /\ RunnerStep /\ analysis'.msg \in AnalysisFailures => pc' = "sleep"
         ]_vars
    /\ (pc = "analyze" /\ cycle.msg \in CycleFailures)
          ~> (pc = "sleep" \/ pc = "stopped")
    /\ (pc = "sleep" /\ analysis.msg \in AnalysisFailures)
          ~> (pc = "fetch" \/ pc = "stopped")
    /\ ([]<>(pc = "fetch") \/ <>(pc = "stopped"))

\* C7 witness: the analysis met an unexpected error (a station_id that is
\* None cannot be formatted) on a table with rows, and the loop sleeps.
C7_Witness ==
    /\ pc = "sleep"
    /\ analysis.msg = "unexpected"
    /\ rows # <<>>


\* The runner is between two cycles: asleep, or about to start the next.
BetweenCycles == pc \in {"loop", "sleep"}

\* C8 as stated: the interrupt cancels the loop between cycles only; the
\* runner never stops from inside a cycle (fetching, writing, analysing).
C8_OnlyBetweenCycles ==
    [][pc' = "stopped" /\ pc # "stopped" => BetweenCycles]_vars

\* C8 amended: the loop is cancelled by the interrupt only, and the
\* interrupt takes effect wherever it arrives, mid-cycle included: at every
\* position of a running loop the interrupt can stop the runner, the runner
\* stops on no other step, and it stops on the spot, with the table as it
\* was and the rows of an open transaction dropped.
C8_CancelledAnywhere ==
    /\ [](pc # "stopped" => ENABLED KeyboardInterrupt)
    /\ [][pc' = "stopped" /\ pc # "stopped" =>
              /\ cycle'.msg = "KeyboardInterrupt"
              /\ cycle'.at = pc
              /\ rows' = rows
              /\ pending' = <<>>
         ]_vars

\* C8 witness: the runner was stopped while its cycle was fetching.
C8_Witness ==
    /\ pc = "stopped"
    /\ cycle.msg = "KeyboardInterrupt"
    /\ cycle.at = "fetch"


\* C9: the interrupt, wherever it arrives, ends the runner: the runner is
\* stopped on that very step and takes no step afterwards.  The table then
\* holds all rows of the batch in flight or none: the interrupt's step
\* leaves the table as it was with nothing left in a transaction, and any
\* other step of the runner changes the table only by the commit, which
\* adds the whole batch.  No connection is open once the runner is stopped.
C9_InterruptTerminates ==
    /\ [](pc = "stopped" => conn # "open" /\ pending = <<>>)
    /\ [][ /\ pc # "stopped"
           /\ cycle'.msg = "KeyboardInterrupt" =>
                 /\ pc' = "stopped"
                 /\ rows' = rows
           /\ rows' # rows =>
                 rows' = rows \o rows_to_insert(stations_data, current_time_str)
         ]_vars

\* C9 witness: the runner was stopped between two INSERTs, with a row of
\* the batch in its transaction, and the table holds no row of the batch.
C9_Witness ==
    /\ pc = "stopped"
    /\ cycle.at = "insert"
    /\ cycle.inserted >= 1
    /\ conn = "closed"


\* A ranking with its group keys and averages: at most RankingLimit
\* entries, as many as there are groups up to that, one entry per group of
\* the table, and the averages never increase along it, the groups without
\* an average (NULL) coming last.
IsRanking(keys, avgs, table) ==
    LET n == Len(keys)
        groups == Cardinality(GroupKeys(table))
    IN  /\ n <= RankingLimit
        /\ n = IF groups < RankingLimit THEN groups ELSE RankingLimit
        /\ \A i \in 1..n : keys[i] \in GroupKeys(table)
        /\ \A i, j \in 1..n : i < j =>
              /\ keys[i] # keys[j]
              /\ avgs[i].den = 0 => avgs[j].den = 0
              /\ avgs[i].den # 0 /\ avgs[j].den # 0 =>
                    avgs[i].num * avgs[j].den >= avgs[j].num * avgs[i].den

\* The ranking the dashboard has computed, and the one the runner fetched.
AppRanked == app.op = "ranking" /\ app.status = "ok"

RunnerRanked == pc = "sleep" /\ analysis.msg \in {"table", "unexpected", "no_data"}

\* C10 as stated: for every N the ranking has at most N entries (the code
\* takes no N: the one ranking it computes is what every N is answered with).
C10_AtMostNForEveryN ==
    \A N \in 1..RankingLimit :
        /\ AppRanked => Len(app.data) <= N
        /\ RunnerRanked => Len(analysis.results) <= N

\* C10 amended: the ranking takes no limit; it has at most 10 entries, one
\* per (station_id, name) group of the table, and avg_bikes never increases
\* along it, groups whose avg_bikes is NULL coming last; in the dashboard as
\* in the runner.
C10_RankingCapped ==
    /\ AppRanked =>
          IsRanking([i \in 1..Len(app.data) |->
                         <<app.data[i].station_id, app.data[i].name>>],
                    [i \in 1..Len(app.data) |-> app.data[i].Velos_Moy],
                    rows)
    /\ RunnerRanked =>
          IsRanking([i \in 1..Len(analysis.results) |->
                         <<analysis.results[i].station_id,
                           analysis.results[i].name>>],
                    [i \in 1..Len(analysis.results) |->
                         analysis.results[i].avg_bikes],
                    rows)

\* C10 witness: the table has more than 10 groups, one of them without an
\* average, and both rankings have 10 entries.
C10_Witness ==
    /\ Cardinality(GroupKeys(rows)) > RankingLimit
    /\ \E k \in GroupKeys(rows) : Aggregate(k, rows).avg_bikes.den = 0
    /\ AppRanked
    /\ Len(app.data) = RankingLimit
    /\ RunnerRanked
    /\ Len(analysis.results) = RankingLimit


\* A read of the dashboard on a table without rows, no storage fault
\* injected.
AppReadOfEmptyStore ==
    /\ DashboardStep
    /\ rows = <<>>
    /\ app'.op \in {"display", "ranking"}
    /\ app'.fault = NoFault

\* C11: on a store with zero rows, the store no append has ever touched
\* included, read_latest and compute_ranking return an empty sequence and
\* neither raises nor reports an error.
C11_EmptyStoreReadsEmpty ==
    [][AppReadOfEmptyStore =>
          /\ app'.status \in {"ok", "cached"}
          /\ app'.msg = "none"
          /\ app'.data = <<>>
      ]_vars


\* A row with no bike and no dock, and a table without such rows.
IsZeroRow(r) == r.num_bikes_available = 0 /\ r.num_docks_available = 0

WithoutZeroRows(table) == SelectSeq(table, LAMBDA r : ~IsZeroRow(r))

\* The rows of a group.
GroupOf(key, table) ==
    SelectSeq(table, LAMBDA r : r.station_id = key[1] /\ r.name = key[2])

\* The policy on an entry of the ranking whose group has rows with no bike
\* and no dock: the entry counts them as snapshots and in the sum and the
\* average of the bikes, its utilization is the one the group has without
\* them, and a group of such rows only has none.
ZeroRowPolicy(key, count, total, avg, util, table) ==
    LET g == GroupOf(key, table)
        z == Len(SelectSeq(g, IsZeroRow))
    IN  z > 0 =>
          /\ count = Len(g)
          /\ avg.den = Len(SelectSeq(g, LAMBDA r : r.num_bikes_available # NULL))
          /\ avg.den >= z
          /\ total = avg.num
          /\ util = Aggregate(key, WithoutZeroRows(table)).avg_utilization_percent
          /\ z = Len(g) => util = NULL /\ total = 0 /\ avg.num = 0

PercentOfOne(b, t) == (2 * 10000 * b + t) \div (2 * t)

PercentOfTwo(b1, t1, b2, t2) ==
    (2 * 10000 * (b1 * t2 + b2 * t1) + 2 * t1 * t2) \div (4 * t1 * t2)

\* An entry of the ranking aggregates every row the table has of its
\* group: the count is the number of rows; the sum and the mean of the
\* bikes are over the rows that have a bike count; and the utilization of
\* a group of one or two rows with bikes, docks and a non-zero total is
\* the mean of the rows' percentages.
AggregatesAll(key, count, total, avg, util, table) ==
    LET g == GroupOf(key, table)
        bikes == SelectSeq(g, LAMBDA r : r.num_bikes_available # NULL)
        full == SelectSeq(g, LAMBDA r :
                    /\ r.num_bikes_available # NULL
                    /\ r.num_docks_available # NULL
                    /\ r.num_bikes_available + r.num_docks_available > 0)
        T(r) == r.num_bikes_available + r.num_docks_available
    IN  /\ count = Len(g)
        /\ avg.den = Len(bikes)
        /\ Len(bikes) = 0 => total = NULL
        /\ Len(bikes) = 1 =>
              total = bikes[1].num_bikes_available /\ avg.num = total
        /\ Len(bikes) = 2 =>
              /\ total = bikes[1].num_bikes_available
                         + bikes[2].num_bikes_available
              /\ avg.num = total
        /\ Len(full) = 0 => util = NULL
        /\ Len(full) = 1 =>
              util = PercentOfOne(full[1].num_bikes_available, T(full[1]))
        /\ Len(full) = 2 =>
              util = PercentOfTwo(full[1].num_bikes_available, T(full[1]),
                                  full[2].num_bikes_available, T(full[2]))

\* The snapshots of the example: station 1 with 5 bikes and 5 docks at the
\* first reading, 7 bikes and 3 docks at the second.
ExampleGroup(key, table) ==
    LET g == GroupOf(key, table)
    IN  /\ Len(g) = 2
        /\ g[1].snapshot_time # g[2].snapshot_time
        /\ g[1].num_bikes_available = 5 /\ g[1].num_docks_available = 5
        /\ g[2].num_bikes_available = 7 /\ g[2].num_docks_available = 3

\* C13: the ranking aggregates per (station_id, name) group over all the
\* rows of the table, not those of the latest snapshot only: count, sum
\* and mean of the bikes and mean utilization are those of all rows of the
\* group, and the group (t1, 5, 5), (t2, 7, 3) has avg_bikes 6 and
\* avg_utilization_percent 60.00; in the dashboard as in the runner.
C13_AggregatesAllSnapshots ==
    /\ AppRanked =>
          \A i \in 1..Len(app.data) :
              LET e == app.data[i]
                  key == <<e.station_id, e.name>>
              IN  /\ AggregatesAll(key, e.Snapshots, e.total_bikes,
                                   e.Velos_Moy, e.Utilisation, rows)
                  /\ ExampleGroup(key, rows) =>
                        /\ e.Velos_Moy.num = 6 * e.Velos_Moy.den
                        /\ e.Utilisation = 6000
    /\ RunnerRanked =>
          \A i \in 1..Len(analysis.results) :
              LET e == analysis.results[i]
                  key == <<e.station_id, e.name>>
              IN  /\ AggregatesAll(key, e.snapshots_count, e.total_bikes,
                                   e.avg_bikes, e.avg_utilization_percent,
                                   rows)
                  /\ ExampleGroup(key, rows) =>
                        /\ e.avg_bikes.num = 6 * e.avg_bikes.den
                        /\ e.avg_utilization_percent = 6000

\* C13 witness: both rankings hold the entry of the example's group, with
\* two snapshots.
C13_Witness ==
    /\ AppRanked
    /\ RunnerRanked
    /\ \E i \in 1..Len(app.data) :
          /\ ExampleGroup(<<app.data[i].station_id, app.data[i].name>>, rows)
          /\ app.data[i].Snapshots = 2
    /\ \E i \in 1..Len(analysis.results) :
          /\ ExampleGroup(<<analysis.results[i].station_id,
                            analysis.results[i].name>>, rows)
          /\ analysis.results[i].snapshots_count = 2


\* The last call of the dashboard was a read_latest that returned a frame
\* read from the table, and this step is the next call, a read_latest again
\* that meets no storage fault: no append lies between the two. The
\* timestamps of the table grow with the rows, as a clock that is never set
\* back writes them, and no two batches carry the same one.
ReadLatestTwice ==
    /\ DashboardStep
    /\ \A i, j \in DOMAIN rows :
          i < j => /\ rows[i].snapshot_time <= rows[j].snapshot_time
                   /\ rows[i].station_id = rows[j].station_id =>
                          rows[i].snapshot_time < rows[j].snapshot_time
    /\ app.op = "display"
    /\ app.status = "ok" \/ (app.status = "cached" /\ app.data # <<>>)
    /\ app'.op = "display"
    /\ app'.fault = NoFault

\* C14: read_latest and compute_ranking leave the table unchanged, and two
\* calls of read_latest with no append between them return the same.
C14_ReadsIdempotent ==
    [][ /\ DashboardStep /\ app'.op \in {"display", "ranking"} =>
              rows' = rows /\ tableExists' = tableExists
        /\ ReadLatestTwice =>
              /\ app'.status \in {"ok", "cached"}
              /\ app'.data = app.data
      ]_vars


\* The runner is inside load_data_to_sqlite or analyze_and_rank_stations,
\* past the sqlite3.connect of the call.
InsideConnection == pc \in {"create", "insert", "commit", "rank"}

StampIsNew == \A i \in DOMAIN rows : rows[i].snapshot_time < current_time_str

\* The last n rows of the table are stamped later than the rows before.
LastBatchIsNewest(n) ==
    \A i \in 1..(Len(rows) - n) :
        rows[i].snapshot_time < rows[Len(rows)].snapshot_time

\* A read of the dashboard that went to the table while the runner's
\* transaction holds inserted rows, all of the batch or some.
ReadDuringCycle ==
    /\ app' # app
    /\ app'.op \in {"display", "ranking"}
    /\ app'.status = "ok"
    /\ pc \in {"insert", "commit"}
    /\ pending # <<>>
    /\ StampIsNew

\* A display that went to the table right after the runner's commit.
ReadAfterCycle ==
    /\ app' # app
    /\ app'.op = "display"
    /\ app'.status = "ok"
    /\ pc = "analyze"
    /\ cycle.msg = "loaded"
    /\ LastBatchIsNewest(cycle.inserted)

RECURSIVE SnapshotsCounted(_)
\* The snapshots a ranking frame accounts for.
SnapshotsCounted(data) ==
    IF data = <<>> THEN 0
    ELSE Head(data).Snapshots + SnapshotsCounted(Tail(data))

CyclePcs == {"fetch"} \cup LoadPcs

AnalysisPcs == {"analyze", "rank"}

\* C17: the order of events in the continuous loop.  The script starts at
\* the head of the loop, and from there the next thing is a cycle, never a
\* sleep; the analysis starts only when run_ingestion_cycle() has returned,
\* with its transaction over and its connection closed; whatever way the
\* cycle ended, the analysis is what follows it; the sleep starts only when
\* the analysis has run, and the next cycle only after that one sleep.
\* (The interrupt alone leaves this order: it stops the runner.)
C17_LoopOrder ==
    /\ pc = "loop"
    /\ [][ pc' # pc =>
             /\ pc = "loop" => pc' \in {"fetch", "stopped"}
             /\ pc' = "fetch" => pc = "loop"
             /\ pc' = "analyze" =>
                    /\ pc \in CyclePcs
                    /\ cycle'.msg # "none"
                    /\ pending' = <<>>
                    /\ conn' # "open"
             /\ pc \in CyclePcs /\ pc' \notin CyclePcs =>
                    pc' \in {"analyze", "stopped"}
             /\ pc' = "sleep" =>
                    /\ pc \in AnalysisPcs
                    /\ analysis'.msg # "none"
             /\ pc \in AnalysisPcs /\ pc' \notin AnalysisPcs =>
                    pc' \in {"sleep", "stopped"}
             /\ pc = "sleep" => pc' \in {"loop", "stopped"}
             /\ pc' = "loop" => pc = "sleep"
         ]_vars

\* The second iteration has begun: a cycle committed rows, the analysis
\* ran, the loop slept once and fetches again.
C17_Witness ==
    /\ pc = "fetch"
    /\ rows # <<>>
    /\ conn = "closed"


\* The responses that make the runner's cycle end as it ends on this step:
\* the batch in hand once load_data_to_sqlite is entered, else the
\* responses that fail or are empty the way the cycle's message says.
CycleResponses ==
    IF pc = "fetch"
    THEN {[kind |-> k, stations |-> <<>>, t |-> 0] :
            k \in IF cycle'.msg = "api_error" THEN FetchFailures
                  ELSE IF cycle'.msg = "no_data" THEN EmptyBodies
                  ELSE {"null_network"}}
    ELSE {[kind |-> "stations", stations |-> stations_data,
           t |-> current_time_str]}

\* The storage fault the runner's load meets on this step, if any.
CycleFault ==
    IF cycle'.msg = "sqlite_error"
    THEN [at |-> pc, n |-> IF pc = "insert" THEN Len(pending) ELSE 0]
    ELSE NoFault

\* C18: the cycle of extract.py and the cycle of app.py have the same
\* effect on the table.  While the runner's cycle is under way the rows of
\* the table stay as they were; on the step that ends it the table is the
\* one app.py's run_ingestion_cycle leaves when given the same table, the
\* same response and timestamp and the same storage fault, and both tell
\* the same outcome; app.py returns True, False or None where extract.py
\* returns None.
C18_CyclesEquivalent ==
    [][ RunnerStep /\ pc \in CyclePcs =>
          /\ pc' \in CyclePcs => rows' = rows
          /\ pc' = "analyze" =>
                \A response \in CycleResponses :
                    LET out == run_ingestion_cycle(rows, tableExists,
                                                   response, CycleFault)
                    IN  /\ rows' = out.rows
                        /\ tableExists' = out.exists
                        /\ cycle'.msg = out.msg
                        /\ cycle'.ret = "None"
                        /\ out.ret \in {"True", "False", "None"}
      ]_vars

\* The runner's load failed on its second INSERT and rolled the first
\* back.
C18_Witness ==
    /\ pc = "analyze"
    /\ cycle.msg = "sqlite_error"
    /\ cycle.at = "insert"
    /\ cycle.inserted = 1
    /\ pending = <<>>

=============================================================================
